---- MODULE Spec2Model ----
(***************************************************************************)
(* The reference-counted handle graph of rclpy_common/src/handle.c.        *)
(*                                                                         *)
(* A handle is a heap record (struct rclpy_handle_t).  Heap addresses are  *)
(* the slots 1..MaxHandles; the allocator hands out the lowest slot that   *)
(* was never used, and a deallocated slot is never handed out again, so a  *)
(* slot number names one handle for the whole behaviour.  Every action is  *)
(* one whole call of a function of handle.c, the recursion of              *)
(* _rclpy_handle_dec_ref included.                                         *)
(***************************************************************************)
EXTENDS Integers, Sequences, FiniteSets

\* ------------------------------------------------------------- bounds
MaxHandles == 3      \* handles ever allocated in one behaviour
MaxEdges == 2        \* successful add_dependency calls in one behaviour

\* ------------------------------------------------------------- constants
NULL == 0
RCUTILS_RET_OK == 0
RCUTILS_RET_ERROR == 2
destructor_fn == 1   \* the (non-null) destructor callback passed to create

Slots == 1..MaxHandles
\* The threads of the host runtime that may run a release.
Threads == {1, 2}

\* The native objects the callers wrap.  Each is wrapped once and the code never
\* looks at the pointer, so the object wrapped by the k-th successful create is
\* named by a non-null address that depends on k alone.
Resource(k) == 10 + k

VARIABLES
  heap,     \* slot -> struct rclpy_handle_t, with the allocation state of the slot
  owned,    \* slot -> TRUE while the caller that created the handle holds its reference
  added,    \* history: slot -> the dependencies ever added to it, in call order
  given,    \* history: slot -> the resource pointer passed to create
  calls,    \* history: the handles whose destructor was invoked, in invocation order
  fault,    \* "none", or what went wrong: "assert" (line 93) or "ub" (freed memory used)
  last,     \* the last call: its name, arguments, result and the events of its run
  stack,    \* thread -> the frames of the _rclpy_handle_dec_ref calls it is running
  raced     \* history: TRUE once a release began while another was running

vars == <<heap, owned, added, given, calls, fault, last, stack, raced>>

\* ------------------------------------------------------------- the record
\* A slot that holds no handle.  zero_allocate has not run on it (st = "unused")
\* or deallocate has (st = "freed").
NoHandle(st) ==
  [st |-> st, ptr |-> NULL, ref_count |-> 0, dependencies |-> <<>>,
   num_of_dependencies |-> 0, destructor |-> NULL]

\* struct rclpy_handle_t as zero_allocate returns it.  The dependencies array is
\* the sequence of its elements; the NULL array pointer is the empty sequence
\* (reallocate is never asked for an array of zero elements).
rclpy_handle_t ==
  [st |-> "live", ptr |-> NULL, ref_count |-> 0, dependencies |-> <<>>,
   num_of_dependencies |-> 0, destructor |-> NULL]

Live(h) == h \in Slots /\ heap[h].st = "live"
Unused == {h \in Slots : heap[h].st = "unused"}
Min(S) == CHOOSE x \in S : \A y \in S : x <= y
Range(s) == {s[i] : i \in 1..Len(s)}
Count(s, x) == Cardinality({i \in 1..Len(s) : s[i] = x})
Pos(s, x) == CHOOSE i \in 1..Len(s) : s[i] = x

\* events of one call
\* An event of one call: "dec_ref" (handle h, n its ref_count after line 97),
\* "destructor" (line 99 on handle h), "dependency" (line 102: handle h releases
\* the n-th element of its array) and "deallocate" (line 106 on handle h).
Ev(e, h, n) == [ev |-> e, h |-> h, n |-> n]
\* A call: its name, its arguments a and b, whether the allocator served it, the
\* value returned and the events of its run.
Call(op, a, b, ok, ret, log) ==
  [op |-> op, a |-> a, b |-> b, ok |-> ok, ret |-> ret, log |-> log]

\* ------------------------------------------------------------- create
\* _rclpy_create_handle without the increment of line 47.
create_handle_no_increment(hp, ptr, destructor, ok) ==
  IF ~ok
  THEN [heap |-> hp, ret |-> NULL]
  ELSE LET handle == Min({h \in Slots : hp[h].st = "unused"})
           hp1 == [hp EXCEPT ![handle] = rclpy_handle_t]
           hp2 == [hp1 EXCEPT ![handle].ptr = ptr]
           hp4 == [hp2 EXCEPT ![handle].destructor = destructor]
       IN [heap |-> hp4, ret |-> handle]

\* _rclpy_create_handle on heap hp; ok tells whether zero_allocate succeeds.  The
\* result is the heap after the call and the handle returned.
_rclpy_create_handle(hp, ptr, destructor, ok) ==
  IF ~ok
  THEN [heap |-> hp, ret |-> NULL]
  ELSE LET handle == Min({h \in Slots : hp[h].st = "unused"})
           hp1 == [hp EXCEPT ![handle] = rclpy_handle_t]
           hp2 == [hp1 EXCEPT ![handle].ptr = ptr]
           hp3 == [hp2 EXCEPT ![handle].ref_count = @ + 1]
           hp4 == [hp3 EXCEPT ![handle].destructor = destructor]
       IN [heap |-> hp4, ret |-> handle]

Create(ok) ==
  /\ fault = "none"
  /\ UNCHANGED <<stack, raced>>
  /\ Unused # {}
  /\ LET p == Resource(Min(Unused))
         r == _rclpy_create_handle(heap, p, destructor_fn, ok) IN
     /\ heap' = r.heap
     /\ last' = Call("create", p, NULL, ok, r.ret, <<>>)
     /\ owned' = IF r.ret # NULL THEN [owned EXCEPT ![r.ret] = TRUE] ELSE owned
     /\ given' = IF r.ret # NULL THEN [given EXCEPT ![r.ret] = p] ELSE given
  /\ UNCHANGED <<added, calls, fault>>

\* ------------------------------------------------------------- add_dependency
\* allocator.reallocate(old, n * sizeof(rclpy_handle_t *)) when it succeeds: an
\* array of n elements that keeps the elements of old; the rest is not yet written.
reallocate(old, n) ==
  [i \in 1..n |-> IF i <= Len(old) THEN old[i] ELSE NULL]

\* _rclpy_handle_add_dependency without the assignment of line 75: the handle
\* keeps its old array pointer.
add_dependency_array_not_stored(hp, dependent, dependency, ok) ==
  IF ~ok
  THEN [heap |-> hp, ret |-> RCUTILS_RET_ERROR]
  ELSE LET hp1 == [hp EXCEPT ![dependent].num_of_dependencies = @ + 1]
           hp2 == [hp1 EXCEPT ![dependency].ref_count = @ + 1]
       IN [heap |-> hp2, ret |-> RCUTILS_RET_OK]

\* _rclpy_handle_add_dependency without the increment of line 76.
add_dependency_no_increment(hp, dependent, dependency, ok) ==
  IF ~ok
  THEN [heap |-> hp, ret |-> RCUTILS_RET_ERROR]
  ELSE LET n == hp[dependent].num_of_dependencies
           new_dependencies ==
             [reallocate(hp[dependent].dependencies, n + 1) EXCEPT ![n + 1] = dependency]
           hp1 == [hp EXCEPT ![dependent].num_of_dependencies = @ + 1,
                             ![dependent].dependencies = new_dependencies]
       IN [heap |-> hp1, ret |-> RCUTILS_RET_OK]

\* _rclpy_handle_add_dependency with the increment of line 76 moved before the
\* test of line 70.
add_dependency_increment_first(hp, dependent, dependency, ok) ==
  LET hp0 == [hp EXCEPT ![dependency].ref_count = @ + 1] IN
  IF ~ok
  THEN [heap |-> hp0, ret |-> RCUTILS_RET_ERROR]
  ELSE LET n == hp0[dependent].num_of_dependencies
           new_dependencies ==
             [reallocate(hp0[dependent].dependencies, n + 1) EXCEPT ![n + 1] = dependency]
           hp1 == [hp0 EXCEPT ![dependent].num_of_dependencies = @ + 1,
                              ![dependent].dependencies = new_dependencies]
       IN [heap |-> hp1, ret |-> RCUTILS_RET_OK]

\* _rclpy_handle_add_dependency with line 76 incrementing the dependent.
add_dependency_increment_dependent(hp, dependent, dependency, ok) ==
  IF ~ok
  THEN [heap |-> hp, ret |-> RCUTILS_RET_ERROR]
  ELSE LET n == hp[dependent].num_of_dependencies
           new_dependencies ==
             [reallocate(hp[dependent].dependencies, n + 1) EXCEPT ![n + 1] = dependency]
           hp1 == [hp EXCEPT ![dependent].num_of_dependencies = @ + 1,
                             ![dependent].dependencies = new_dependencies]
           hp2 == [hp1 EXCEPT ![dependent].ref_count = @ + 1]
       IN [heap |-> hp2, ret |-> RCUTILS_RET_OK]

\* _rclpy_handle_add_dependency on heap hp; ok tells whether reallocate succeeds.
\* The result is the heap after the call and the value returned.
_rclpy_handle_add_dependency(hp, dependent, dependency, ok) ==
  IF ~ok
  THEN [heap |-> hp, ret |-> RCUTILS_RET_ERROR]
  ELSE LET n == hp[dependent].num_of_dependencies
           new_dependencies ==
             [reallocate(hp[dependent].dependencies, n + 1) EXCEPT ![n + 1] = dependency]
           hp1 == [hp EXCEPT ![dependent].num_of_dependencies = @ + 1,
                             ![dependent].dependencies = new_dependencies]
           hp2 == [hp1 EXCEPT ![dependency].ref_count = @ + 1]
       IN [heap |-> hp2, ret |-> RCUTILS_RET_OK]

RECURSIVE SumLen(_, _), SumCount(_, _)
SumLen(f, n) == IF n = 0 THEN 0 ELSE Len(f[n]) + SumLen(f, n - 1)
NumEdges == SumLen(added, MaxHandles)
SumCount(b, n) == IF n = 0 THEN 0 ELSE Count(added[n], b) + SumCount(b, n - 1)

AddDependency(a, b, ok) ==
  /\ fault = "none"
  /\ UNCHANGED <<stack, raced>>
  /\ Live(a) /\ Live(b)
  /\ NumEdges < MaxEdges
  /\ LET r == _rclpy_handle_add_dependency(heap, a, b, ok) IN
     /\ heap' = r.heap
     /\ last' = Call("add_dependency", a, b, ok, r.ret, <<>>)
     /\ added' = IF r.ret = RCUTILS_RET_OK
                 THEN [added EXCEPT ![a] = Append(@, b)] ELSE added
  /\ UNCHANGED <<owned, given, calls, fault>>

\* ------------------------------------------------------------- release
\* The run of _rclpy_handle_dec_ref threads a record s through the recursion:
\* s.heap, s.calls (destructor invocations), s.log (events of this call) and
\* s.fault.  A fault ends the run: the assertion aborts the process, and a use
\* of deallocated memory is undefined.
RECURSIVE _rclpy_handle_dec_ref(_, _)
RECURSIVE dec_ref_dependencies(_, _, _)

\* The assertion of lines 93-95.
dec_ref_assertion(handle) ==
  \/ handle.num_of_dependencies # 0 /\ handle.dependencies # <<>>
  \/ handle.num_of_dependencies = 0 /\ handle.dependencies = <<>>

\* The loop of lines 101-103 running from the last element down to the first.
RECURSIVE dec_ref_dependencies_backwards(_, _, _)
dec_ref_dependencies_backwards(s, handle, i) ==
  IF s.fault # "none" THEN s
  ELSE IF s.heap[handle].st # "live" THEN [s EXCEPT !.fault = "ub"]
  ELSE IF i > s.heap[handle].num_of_dependencies THEN s
  ELSE IF i > Len(s.heap[handle].dependencies) THEN [s EXCEPT !.fault = "ub"]
  ELSE LET k == s.heap[handle].num_of_dependencies + 1 - i
           s1 == [s EXCEPT !.log = Append(@, Ev("dependency", handle, k))] IN
       dec_ref_dependencies_backwards(
         _rclpy_handle_dec_ref(s1, s.heap[handle].dependencies[k]), handle, i + 1)

\* The loop of lines 101-103 left out: no dependency is released.
dec_ref_dependencies_skipped(s, handle, i) == s

\* The loop of lines 101-103 from index i on (i counts from 1 here).  The loop
\* reads handle->num_of_dependencies and handle->dependencies[i] afresh on each
\* round.
dec_ref_dependencies(s, handle, i) ==
  IF s.fault # "none" THEN s
  ELSE IF s.heap[handle].st # "live" THEN [s EXCEPT !.fault = "ub"]
  ELSE IF i > s.heap[handle].num_of_dependencies THEN s
  ELSE IF i > Len(s.heap[handle].dependencies) THEN [s EXCEPT !.fault = "ub"]
  ELSE LET s1 == [s EXCEPT !.log = Append(@, Ev("dependency", handle, i))] IN
       dec_ref_dependencies(
         _rclpy_handle_dec_ref(s1, s.heap[handle].dependencies[i]), handle, i + 1)

\* dec_ref_destroy with the destructor invoked after the loop over the
\* dependencies instead of before it.
dec_ref_destroy_dependencies_first(s, handle) ==
  LET s1 == dec_ref_dependencies(s, handle, 1)
      s2 == IF s1.fault = "none" /\ s1.heap[handle].destructor # NULL
            THEN [s1 EXCEPT !.calls = Append(@, handle),
                            !.log = Append(@, Ev("destructor", handle, 0))]
            ELSE s1
  IN IF s2.fault # "none" THEN s2
     ELSE IF s2.heap[handle].st # "live" THEN [s2 EXCEPT !.fault = "ub"]
     ELSE [s2 EXCEPT !.heap[handle] = NoHandle("freed"),
                     !.log = Append(@, Ev("deallocate", handle, 0))]

\* The zero branch of lines 98-106: destructor, dependencies, deallocation.
dec_ref_destroy(s, handle) ==
  LET s1 == IF s.heap[handle].destructor # NULL
            THEN [s EXCEPT !.calls = Append(@, handle),
                           !.log = Append(@, Ev("destructor", handle, 0))]
            ELSE s
      s2 == dec_ref_dependencies(s1, handle, 1)
  IN IF s2.fault # "none" THEN s2
     ELSE IF s2.heap[handle].st # "live" THEN [s2 EXCEPT !.fault = "ub"]
     ELSE [s2 EXCEPT !.heap[handle] = NoHandle("freed"),
                     !.log = Append(@, Ev("deallocate", handle, 0))]

\* --handle->ref_count of line 97.  ref_count is a size_t; the handle is live here,
\* and a live handle's count is at least 1 as long as no caller releases more
\* often than it owns, so the decrement does not wrap.
dec_ref_decrement(s, handle) ==
  [s EXCEPT !.heap[handle].ref_count = @ - 1,
            !.log = Append(@, Ev("dec_ref", handle, s.heap[handle].ref_count - 1))]

\* dec_ref_handle with the test of line 97 off by one: the zero branch is taken
\* when the count reaches 1.
dec_ref_handle_at_one(s, handle) ==
  IF s.heap[handle].st # "live" THEN [s EXCEPT !.fault = "ub"]
  ELSE IF ~dec_ref_assertion(s.heap[handle]) THEN [s EXCEPT !.fault = "assert"]
  ELSE LET s1 == dec_ref_decrement(s, handle) IN
       IF s1.heap[handle].ref_count # 1 THEN s1 ELSE dec_ref_destroy(s1, handle)

\* Lines 93-107, on a handle that is not NULL.
dec_ref_handle(s, handle) ==
  IF s.heap[handle].st # "live" THEN [s EXCEPT !.fault = "ub"]
  ELSE IF ~dec_ref_assertion(s.heap[handle]) THEN [s EXCEPT !.fault = "assert"]
  ELSE LET s1 == dec_ref_decrement(s, handle) IN
       IF s1.heap[handle].ref_count # 0 THEN s1 ELSE dec_ref_destroy(s1, handle)

\* _rclpy_handle_dec_ref without the test of line 90: the NULL handle is
\* dereferenced.
dec_ref_no_null_test(s, handle) ==
  IF s.fault # "none" THEN s
  ELSE IF handle = NULL THEN [s EXCEPT !.fault = "ub"]
  ELSE dec_ref_handle(s, handle)

_rclpy_handle_dec_ref(s, handle) ==
  IF s.fault # "none" THEN s
  ELSE IF handle = NULL THEN s
  ELSE dec_ref_handle(s, handle)

\* One call of release by the caller that owns the reference created with the
\* handle (or a call on the absent handle).
Release(h) ==
  /\ fault = "none"
  /\ UNCHANGED <<stack, raced>>
  /\ h = NULL \/ (h \in Slots /\ owned[h])
  /\ LET s == _rclpy_handle_dec_ref(
                [heap |-> heap, calls |-> calls, log |-> <<>>, fault |-> "none"], h) IN
     /\ heap' = s.heap
     /\ calls' = s.calls
     /\ fault' = s.fault
     /\ last' = Call("release", h, NULL, TRUE, NULL, s.log)
  /\ owned' = IF h = NULL THEN owned ELSE [owned EXCEPT ![h] = FALSE]
  /\ UNCHANGED <<added, given>>

\* ------------------------------------------------------------- get_pointer
\* _rclpy_handle_get_pointer returning the handle instead of handle->ptr.
get_pointer_returns_handle(hp, handle) ==
  IF handle = NULL THEN NULL ELSE handle

_rclpy_handle_get_pointer(hp, handle) ==
  IF handle = NULL THEN NULL ELSE hp[handle].ptr

GetPointer(h) ==
  /\ fault = "none"
  /\ UNCHANGED <<stack, raced>>
  /\ h = NULL \/ Live(h)
  /\ last' = Call("get_pointer", h, NULL, TRUE, _rclpy_handle_get_pointer(heap, h), <<>>)
  /\ UNCHANGED <<heap, owned, added, given, calls, fault>>

Init ==
  /\ heap = [h \in Slots |-> NoHandle("unused")]
  /\ owned = [h \in Slots |-> FALSE]
  /\ added = [h \in Slots |-> <<>>]
  /\ given = [h \in Slots |-> NULL]
  /\ calls = <<>>
  /\ fault = "none"
  /\ last = Call("init", NULL, NULL, TRUE, NULL, <<>>)
  /\ stack = [t \in Threads |-> <<>>]
  /\ raced = FALSE

Next ==
  \/ \E ok \in BOOLEAN : Create(ok)
  \/ \E a \in Slots, b \in Slots, ok \in BOOLEAN : AddDependency(a, b, ok)
  \/ \E h \in Slots \cup {NULL} : Release(h)
  \/ \E h \in Slots \cup {NULL} : GetPointer(h)

Spec == Init /\ [][Next]_vars

\* ------------------------------------------------------------- properties
Destroyed(h) == h \in Range(calls)
Created(h) == h \in Slots /\ heap[h].st # "unused"
\* The handles that hold a reference to b through a dependency they added and
\* have not yet given back (a handle gives its references back when it is destroyed).
Dependents(b) == {a \in Slots : b \in Range(added[a]) /\ heap[a].st = "live"}
\* The number of dependency edges ever added towards b.
InDegree(b) == SumCount(b, MaxHandles)
LogIdx == 1..Len(last.log)

\* C1: a handle's destructor is invoked at most once, and the invocation is made
\* by the release that takes the handle's ref_count from 1 to 0: in the run of
\* every call, a destructor event directly follows the decrement of the same
\* handle to 0, and every decrement to 0 is directly followed by the destructor.
C1_DestructorOnceAtZero ==
  /\ \A h \in Slots : Count(calls, h) <= 1
  /\ \A i \in LogIdx :
       last.log[i].ev = "destructor" =>
         i > 1 /\ last.log[i - 1] = Ev("dec_ref", last.log[i].h, 0)
  /\ \A i \in LogIdx :
       (last.log[i].ev = "dec_ref" /\ last.log[i].n = 0) =>
         i < Len(last.log) /\ last.log[i + 1] = Ev("destructor", last.log[i].h, 0)
  /\ \A i \in LogIdx :
       last.log[i].ev = "destructor" => Destroyed(last.log[i].h)

\* A dependency shared by two owners was destroyed by the last call, a release
\* of another handle, which also destroyed that handle.
C1_Witness ==
  /\ last.op = "release"
  /\ \E b \in Slots :
       /\ InDegree(b) >= 2
       /\ b # last.a
       /\ \E i \in LogIdx : last.log[i] = Ev("destructor", b, 0)
       /\ \E i \in LogIdx : last.log[i] = Ev("destructor", last.a, 0)

\* C2: for every dependency edge A -> B, if both destructors ran then A's ran
\* before B's; and in the run of one release, a handle releases an element of its
\* dependencies only after its own destructor was invoked in that run.
C2_DependentDestroyedFirst ==
  /\ \A a \in Slots, b \in Slots :
       (b \in Range(added[a]) /\ Destroyed(a) /\ Destroyed(b)) =>
         Pos(calls, a) < Pos(calls, b)
  /\ \A j \in LogIdx :
       last.log[j].ev = "dependency" =>
         \E i \in 1..(j - 1) : last.log[i] = Ev("destructor", last.log[j].h, 0)

\* One release destroyed a handle and then the dependency it held.
C2_Witness ==
  /\ last.op = "release"
  /\ \E a \in Slots, b \in Slots :
       /\ a # b /\ b \in Range(added[a])
       /\ Destroyed(a) /\ Destroyed(b)
       /\ \E j \in LogIdx : last.log[j] = Ev("dependency", a, 1)

\* C3: a handle that was made a dependency is live and its destructor has not
\* been invoked as long as one of its owners has not released its reference: the
\* caller that created it, or a handle that added it and is not yet destroyed.
C3_DependencyKeptAlive ==
  \A b \in Slots :
    (InDegree(b) >= 1 /\ (owned[b] \/ Dependents(b) # {})) =>
      heap[b].st = "live" /\ ~Destroyed(b)

\* The creator of a dependency has released it, other handles were destroyed,
\* and the dependency is still held by a live dependent.
C3_Witness ==
  \E a \in Slots, b \in Slots :
    /\ a # b /\ b \in Range(added[a])
    /\ ~owned[b] /\ Created(b) /\ heap[a].st = "live"
    /\ calls # <<>>

\* C4: a create or add_dependency whose allocation fails reports the failure
\* (NULL, RCUTILS_RET_ERROR) and leaves every handle, every reference and the
\* destructor history as they were.
C4_FailedAllocationStep ==
  (last'.op \in {"create", "add_dependency"} /\ ~last'.ok) =>
    /\ last'.op = "create" => last'.ret = NULL
    /\ last'.op = "add_dependency" => last'.ret = RCUTILS_RET_ERROR
    /\ heap' = heap
    /\ UNCHANGED <<owned, added, given, calls, fault>>
C4_FailedAllocationKeepsGraph == [][C4_FailedAllocationStep]_vars

\* add_dependency just failed on a dependent that already has a dependency.
C4_Witness ==
  /\ last.op = "add_dependency" /\ ~last.ok
  /\ heap[last.a].num_of_dependencies >= 1
  /\ heap[last.b].ref_count >= 2

\* C5: a successful add_dependency(a, b) adds 1 to b's ref_count and appends b to
\* a's dependencies; a's ref_count (a # b), b's dependencies (a # b), both
\* resources and destructors and every other handle are unchanged.
C5_AddDependencyStep ==
  (last'.op = "add_dependency" /\ last'.ret = RCUTILS_RET_OK) =>
    LET a == last'.a
        b == last'.b
    IN /\ heap'[b].ref_count = heap[b].ref_count + 1
       /\ heap'[a].dependencies = Append(heap[a].dependencies, b)
       /\ heap'[a].num_of_dependencies = heap[a].num_of_dependencies + 1
       /\ a # b => /\ heap'[a].ref_count = heap[a].ref_count
                   /\ heap'[b].dependencies = heap[b].dependencies
                   /\ heap'[b].num_of_dependencies = heap[b].num_of_dependencies
       /\ \A h \in {a, b} : /\ heap'[h].ptr = heap[h].ptr
                            /\ heap'[h].destructor = heap[h].destructor
                            /\ heap'[h].st = heap[h].st
       /\ \A h \in Slots \ {a, b} : heap'[h] = heap[h]
       /\ UNCHANGED <<owned, given, calls, fault>>
C5_AddDependencyFrame == [][C5_AddDependencyStep]_vars

\* The last call appended a second dependency to a handle.
C5_Witness ==
  /\ last.op = "add_dependency" /\ last.ret = RCUTILS_RET_OK
  /\ last.a # last.b
  /\ Len(heap[last.a].dependencies) = 2
  /\ heap[last.a].dependencies[2] = last.b

\* The diamond: handles A = 1, B = 2 and C = 3 were created, add_dependency(A, C)
\* and add_dependency(B, C) succeeded, and nothing else was created or linked.
DiamondBuilt ==
  /\ MaxHandles >= 3
  /\ added[1] = <<3>> /\ added[2] = <<3>>
  /\ \A h \in Slots \ {1, 2} : added[h] = <<>>
  /\ \A h \in Slots \ {1, 2, 3} : heap[h].st = "unused"
\* h's destructor was the first one invoked.
ReleasedFirst(h) == calls # <<>> /\ calls[1] = h
OwnersLeft(S) == Cardinality({h \in S : owned[h]})

\* C6 as stated: in the diamond, release(A) runs D_a and C survives; release(B)
\* then runs D_b, drops C's count to 0 and runs D_c, so that after these two
\* releases D_a, D_b and D_c were each invoked once, D_c last.
C6_DiamondAsStated ==
  /\ (DiamondBuilt /\ ~owned[1] /\ owned[2] /\ owned[3]) =>
       (calls = <<1>> /\ heap[3].st = "live" /\ heap[3].ref_count >= 1)
  /\ (DiamondBuilt /\ ~owned[1] /\ ~owned[2] /\ owned[3] /\ ReleasedFirst(1)) =>
       (calls = <<1, 2, 3>> /\ heap[3].st = "freed")

\* C6 (amended): in the diamond, release(A) runs D_a and lowers C's count from 3
\* to 2; release(B) then runs D_b and lowers C's count to 1, and C survives with
\* D_c not invoked, because the caller that created C still holds its reference.
\* D_c is invoked by the last of the three releases (A, B, C's creator); once all
\* three were made D_a, D_b and D_c were each invoked once, D_c after D_a and D_b.
C6_Diamond ==
  DiamondBuilt =>
    /\ \A h \in {1, 2} : Count(calls, h) = (IF owned[h] THEN 0 ELSE 1)
    /\ Count(calls, 3) = (IF OwnersLeft({1, 2, 3}) = 0 THEN 1 ELSE 0)
    /\ OwnersLeft({1, 2, 3}) > 0 =>
         heap[3].st = "live" /\ heap[3].ref_count = OwnersLeft({1, 2, 3})
    /\ (~owned[1] /\ owned[2] /\ owned[3]) =>
         (calls = <<1>> /\ heap[3].ref_count = 2)
    /\ (~owned[1] /\ ~owned[2] /\ owned[3] /\ ReleasedFirst(1)) =>
         (calls = <<1, 2>> /\ heap[3].ref_count = 1)
    /\ OwnersLeft({1, 2, 3}) = 0 =>
         (Len(calls) = 3 /\ calls[3] = 3 /\ heap[3].st = "freed")

\* The diamond after release(A), release(B) and the release of C by its creator.
C6_Witness ==
  /\ DiamondBuilt
  /\ OwnersLeft({1, 2, 3}) = 0
  /\ calls = <<1, 2, 3>>
  /\ last.op = "release"

\* C7: between calls every live handle has ref_count >= 1; create returns a
\* handle with ref_count 1 and no dependencies; a handle whose count a release
\* takes to 0 is deallocated in the run of that release; and a deallocated handle
\* is never live again.
C7_LiveCount ==
  /\ \A h \in Slots : heap[h].st = "live" => heap[h].ref_count >= 1
  /\ (last.op = "create" /\ last.ret # NULL) =>
       /\ heap[last.ret].st = "live"
       /\ heap[last.ret].ref_count = 1
       /\ heap[last.ret].dependencies = <<>>
       /\ heap[last.ret].num_of_dependencies = 0
  /\ \A i \in LogIdx :
       (last.log[i].ev = "dec_ref" /\ last.log[i].n = 0) =>
         /\ \E j \in (i + 1)..Len(last.log) : last.log[j] = Ev("deallocate", last.log[i].h, 0)
         /\ heap[last.log[i].h].st = "freed"
C7_OneWayStep ==
  \A h \in Slots :
    /\ heap[h].st = "freed" => heap'[h].st = "freed"
    /\ heap[h].st = "live" => heap'[h].st \in {"live", "freed"}
    /\ (heap[h].st = "live" /\ heap'[h].st = "freed") =>
         (last'.op = "release" /\ \E i \in 1..Len(last'.log) : last'.log[i] = Ev("dec_ref", h, 0))
C7_LiveThenDestroyed == []C7_LiveCount /\ [][C7_OneWayStep]_vars

\* A create succeeded after an earlier handle was destroyed.
C7_Witness ==
  /\ last.op = "create" /\ last.ret # NULL
  /\ \E h \in Slots : heap[h].st = "freed"
  /\ \E h \in Slots : heap[h].st = "live" /\ heap[h].ref_count >= 2

\* C8: get_pointer on a live handle returns the resource pointer given to create,
\* in every reachable state; a get_pointer call changes no handle, reference or
\* destructor history; right after create the new handle's destructor has not
\* been invoked.
C8_PointerKept ==
  /\ \A h \in Slots : heap[h].st = "live" => _rclpy_handle_get_pointer(heap, h) = given[h]
  /\ (last.op = "get_pointer" /\ last.a # NULL) => last.ret = given[last.a]
  /\ (last.op = "create" /\ last.ret # NULL) =>
       (last.a = given[last.ret] /\ ~Destroyed(last.ret))
C8_GetPointerStep ==
  last'.op = "get_pointer" => UNCHANGED <<heap, owned, added, given, calls, fault>>
C8_GetPointer == []C8_PointerKept /\ [][C8_GetPointerStep]_vars

\* get_pointer was called on a handle that has a dependency and is itself a
\* dependency, after another handle was destroyed.
C8_Witness ==
  /\ last.op = "get_pointer" /\ last.a # NULL
  /\ last.ret = Resource(last.a)
  /\ heap[last.a].num_of_dependencies >= 1
  /\ calls # <<>>

\* C9: release on the NULL handle invokes no destructor and changes no handle;
\* get_pointer on the NULL handle returns NULL and changes nothing.
C9_AbsentHandleStep ==
  /\ (last'.op = "release" /\ last'.a = NULL) =>
       /\ last'.log = <<>>
       /\ UNCHANGED <<heap, owned, added, given, calls, fault>>
  /\ (last'.op = "get_pointer" /\ last'.a = NULL) =>
       /\ last'.ret = NULL
       /\ UNCHANGED <<heap, owned, added, given, calls, fault>>
C9_AbsentHandle == [][C9_AbsentHandleStep]_vars

\* release was called on the NULL handle while live handles with dependencies exist.
C9_Witness ==
  /\ last.op = "release" /\ last.a = NULL
  /\ \E h \in Slots : heap[h].st = "live" /\ heap[h].num_of_dependencies >= 1

\* A linear chain c[1] -> c[2] -> ... -> c[n]: distinct handles, each with the
\* next as its one dependency, the last with none, and no other edge into them.
IsChain(c, n) ==
  /\ \A i \in 1..n, j \in 1..n : c[i] = c[j] => i = j
  /\ \A i \in 1..(n - 1) : added[c[i]] = <<c[i + 1]>>
  /\ added[c[n]] = <<>>
  /\ InDegree(c[1]) = 0
  /\ \A i \in 2..n : InDegree(c[i]) = 1

\* C10: along a linear chain the destructors are invoked from the head: a
\* handle's destructor is invoked only after its predecessor's, whatever the order
\* in which the creators release, and once every creator has released every
\* destructor of the chain was invoked.
C10_ChainOrder ==
  \A n \in 2..MaxHandles : \A c \in [1..n -> Slots] :
    IsChain(c, n) =>
      /\ \A i \in 2..n :
           Destroyed(c[i]) =>
             (Destroyed(c[i - 1]) /\ Pos(calls, c[i - 1]) < Pos(calls, c[i]))
      /\ (\A i \in 1..n : ~owned[c[i]]) => (\A i \in 1..n : Destroyed(c[i]))

\* A chain of three handles was destroyed from the head by one release, the
\* creators having released from the tail.
C10_Witness ==
  /\ MaxHandles >= 3
  /\ IsChain(<<1, 2, 3>>, 3)
  /\ calls = <<1, 2, 3>>
  /\ last.op = "release" /\ last.a = 1

\* ------------------------------------------------------------- the graph
\* The handles that the handles of S depend on directly.
Succs(S) == UNION {Range(added[a]) : a \in S}
RECURSIVE ReachN(_, _)
ReachN(S, n) == IF n = 0 THEN S ELSE ReachN(S \cup Succs(S), n - 1)
\* The handles reached from a along one or more dependency edges.
Reachable(a) == ReachN(Range(added[a]), MaxHandles)
OnCycle(h) == h \in Reachable(h)
Acyclic == \A h \in Slots : ~OnCycle(h)

\* C11: a handle on a dependency cycle (a self-dependency included) stays live
\* with ref_count >= 1 and its destructor is never invoked, in particular once
\* every creator has released; add_dependency never rejects an edge, whether it
\* closes a cycle or not: it fails only when the allocation fails.
C11_CycleLeaks ==
  /\ \A h \in Slots :
       OnCycle(h) =>
         (heap[h].st = "live" /\ heap[h].ref_count >= 1 /\ ~Destroyed(h))
  /\ (last.op = "add_dependency" /\ last.ok) => last.ret = RCUTILS_RET_OK

\* A cycle of two handles, both released by their creators, and both still live.
C11_Witness ==
  \E a \in Slots, b \in Slots :
    /\ a # b
    /\ b \in Range(added[a]) /\ a \in Range(added[b])
    /\ \A h \in Slots : ~owned[h]
    /\ heap[a].st = "live" /\ heap[b].st = "live"
    /\ last.op = "release"

\* The number of occurrences of h in the dependencies arrays of the live handles
\* among the slots 1..n.
RECURSIVE SumHeld(_, _)
SumHeld(h, n) ==
  IF n = 0 THEN 0
  ELSE (IF heap[n].st = "live" THEN Count(heap[n].dependencies, h) ELSE 0)
       + SumHeld(h, n - 1)

\* C13: between calls, the ref_count of every live handle is 1 if its creator
\* has not released it, else 0, plus the number of occurrences of the handle in
\* the dependencies arrays of all live handles, each occurrence counted.
C13_CountIsOwners ==
  \A h \in Slots :
    heap[h].st = "live" =>
      heap[h].ref_count = (IF owned[h] THEN 1 ELSE 0) + SumHeld(h, MaxHandles)

\* A handle released by its creator is held twice by one live dependent, and a
\* release has destroyed another handle.
C13_Witness ==
  /\ calls # <<>>
  /\ \E a \in Slots, h \in Slots :
       /\ heap[h].st = "live" /\ ~owned[h]
       /\ heap[a].st = "live" /\ Count(heap[a].dependencies, h) = 2

\* The positions in the run of the last call where handle h releases an element
\* of its dependencies array, and the position where h's n-th release is followed
\* up: the next release by h, or h's deallocation after the last one.
DepEvents(h) == {j \in LogIdx : last.log[j].ev = "dependency" /\ last.log[j].h = h}
NextOf(h, n) ==
  IF n < Len(added[h])
  THEN {j \in LogIdx : last.log[j] = Ev("dependency", h, n + 1)}
  ELSE {j \in LogIdx : last.log[j] = Ev("deallocate", h, 0)}

\* C14: when a release takes a handle's count to 0, the destructor is invoked,
\* then each element of the dependencies array is released once, in insertion
\* order; all that the release of one element causes, deallocations included, is
\* over before the next element is released; and the handle is deallocated after
\* the last element was released.
C14_CascadeOrder ==
  \A p \in LogIdx :
    (last.log[p].ev = "dec_ref" /\ last.log[p].n = 0) =>
      LET h == last.log[p].h IN
      /\ p < Len(last.log) /\ last.log[p + 1] = Ev("destructor", h, 0)
      /\ Cardinality(DepEvents(h)) = Len(added[h])
      /\ \A n \in 1..Len(added[h]) :
           \E j \in DepEvents(h), k \in NextOf(h, n) :
             /\ last.log[j].n = n
             /\ p < j /\ j < k
             /\ last.log[j + 1].ev = "dec_ref" /\ last.log[j + 1].h = added[h][n]
             /\ \A x \in (j + 1)..(k - 1) :
                  /\ last.log[x].h # h
                  /\ (last.log[x].ev = "dec_ref" /\ last.log[x].n = 0) =>
                       \E y \in (x + 1)..(k - 1) :
                         last.log[y] = Ev("deallocate", last.log[x].h, 0)
      /\ \E q \in LogIdx :
           /\ last.log[q] = Ev("deallocate", h, 0)
           /\ \A j \in DepEvents(h) : j < q
           /\ Cardinality({j \in LogIdx : last.log[j] = Ev("deallocate", h, 0)}) = 1

\* One release destroyed a handle with two dependencies, and the release of the
\* first of them destroyed that dependency.
C14_Witness ==
  /\ last.op = "release" /\ last.a # NULL
  /\ Len(added[last.a]) = 2
  /\ added[last.a][1] # added[last.a][2]
  /\ \E j \in LogIdx : last.log[j] = Ev("dependency", last.a, 2)
  /\ \E j \in LogIdx : last.log[j] = Ev("deallocate", added[last.a][1], 0)

\* C15: a release that leaves the handle's ref_count nonzero lowers that count
\* by 1 and does nothing else: no destructor, no change to any dependencies array
\* or to any other count, no deallocation.  The same holds of a release made
\* inside a cascade: after a decrement to a nonzero count the run goes on with
\* the releasing handle, not with the released one.
C15_NonZeroStep ==
  (last'.op = "release" /\ last'.a # NULL /\ heap[last'.a].ref_count - 1 # 0) =>
    /\ heap' = [heap EXCEPT ![last'.a].ref_count = @ - 1]
    /\ last'.log = <<Ev("dec_ref", last'.a, heap[last'.a].ref_count - 1)>>
    /\ UNCHANGED <<added, given, calls, fault>>
C15_NonZeroInCascade ==
  \A j \in LogIdx :
    (last.log[j].ev = "dec_ref" /\ last.log[j].n # 0 /\ j < Len(last.log)) =>
      /\ last.log[j + 1].ev \in {"dependency", "deallocate"}
      /\ last.log[j + 1].h # last.log[j].h
C15_NonZeroRelease == []C15_NonZeroInCascade /\ [][C15_NonZeroStep]_vars

\* A creator released a handle that has a dependency and is still held by a
\* dependent: the handle stays live.
C15_Witness ==
  /\ last.op = "release" /\ last.a # NULL
  /\ heap[last.a].st = "live"
  /\ heap[last.a].num_of_dependencies >= 1
  /\ Len(last.log) = 1

\* C16: for every live handle the dependencies array is NULL exactly when
\* num_of_dependencies is 0, and num_of_dependencies is the number of successful
\* add_dependency calls made with the handle as dependent (the length of the
\* array); so the assertion of lines 93-95 holds of every live handle and no
\* release has failed on it.
C16_ArrayMatchesCount ==
  /\ fault # "assert"
  /\ \A h \in Slots :
       heap[h].st = "live" =>
         /\ (heap[h].dependencies = <<>>) <=> (heap[h].num_of_dependencies = 0)
         /\ heap[h].num_of_dependencies = Len(added[h])
         /\ Len(heap[h].dependencies) = heap[h].num_of_dependencies
         /\ dec_ref_assertion(heap[h])

\* An add_dependency has just failed on a handle that has a dependency, next to
\* a handle that has none.
C16_Witness ==
  /\ last.op = "add_dependency" /\ ~last.ok
  /\ heap[last.a].num_of_dependencies = 1
  /\ \E h \in Slots : heap[h].st = "live" /\ heap[h].dependencies = <<>>

\* C18: on an acyclic graph, once the creator of every handle has released its
\* reference, every handle that was created is deallocated and its destructor
\* was invoked exactly once; no live handle remains.
C18_NoLeakAcyclic ==
  (Acyclic /\ \A h \in Slots : ~owned[h]) =>
    \A h \in Slots :
      Created(h) => (heap[h].st = "freed" /\ Count(calls, h) = 1)

\* Three handles joined by two edges were all destroyed, the last release
\* destroying at least two of them.
C18_Witness ==
  /\ \A h \in Slots : Created(h) /\ ~owned[h] /\ heap[h].st = "freed"
  /\ NumEdges = 2
  /\ last.op = "release"
  /\ Cardinality({j \in LogIdx : last.log[j].ev = "destructor"}) >= 2

\* C19: every element of the dependencies array of a live handle is a live
\* handle; no release has read or decremented a deallocated handle, and no run
\* deallocates a handle twice.
C19_NoDanglingEdge ==
  /\ fault # "ub"
  /\ \A a \in Slots :
       heap[a].st = "live" =>
         \A i \in 1..Len(heap[a].dependencies) :
           /\ heap[a].dependencies[i] \in Slots
           /\ heap[heap[a].dependencies[i]].st = "live"
  /\ \A h \in Slots :
       Cardinality({j \in LogIdx : last.log[j] = Ev("deallocate", h, 0)}) <= 1

\* A dependency outlived its creator's release and the destruction of another
\* handle, and is still held by a live dependent.
C19_Witness ==
  /\ last.op = "release" /\ last.a # NULL
  /\ \E j \in LogIdx : last.log[j].ev = "deallocate"
  /\ \E a \in Slots, b \in Slots :
       /\ a # b /\ heap[a].st = "live" /\ b \in Range(heap[a].dependencies)
       /\ ~owned[b]

\* ------------------------------------------------------------- capsules
\* rclpy_create_handle_capsule on heap hp; ok_handle tells whether zero_allocate
\* succeeds and ok_capsule whether PyCapsule_New does.  The result is the heap
\* after the call, the handle created (NULL if none) and the value returned: the
\* capsule, named by the handle it wraps, or NULL.
rclpy_create_handle_capsule(hp, ptr, destructor, ok_handle, ok_capsule) ==
  LET r == _rclpy_create_handle(hp, ptr, destructor, ok_handle) IN
  IF r.ret = NULL
  THEN [heap |-> r.heap, handle |-> NULL, ret |-> NULL]
  ELSE [heap |-> r.heap, handle |-> r.ret,
        ret |-> IF ok_capsule THEN r.ret ELSE NULL]

\* The capsule returned is the owner of the handle's first reference.
CreateHandleCapsule(ok_handle, ok_capsule) ==
  /\ fault = "none"
  /\ UNCHANGED <<stack, raced>>
  /\ Unused # {}
  /\ LET p == Resource(Min(Unused))
         r == rclpy_create_handle_capsule(heap, p, destructor_fn, ok_handle, ok_capsule) IN
     /\ heap' = r.heap
     /\ last' = Call("create_handle_capsule", p, NULL, ok_handle /\ ok_capsule, r.ret, <<>>)
     /\ owned' = IF r.ret # NULL THEN [owned EXCEPT ![r.ret] = TRUE] ELSE owned
     /\ given' = IF r.handle # NULL THEN [given EXCEPT ![r.handle] = p] ELSE given
  /\ UNCHANGED <<added, calls, fault>>

\* _rclpy_handle_capsule_destructor on the state s of a run; handle is what
\* PyCapsule_GetPointer returns for the capsule.
_rclpy_handle_capsule_destructor(s, handle) ==
  IF handle = NULL THEN s ELSE _rclpy_handle_dec_ref(s, handle)

\* The host runtime finalizes the capsule that owns the first reference of h.
CapsuleDestructor(h) ==
  /\ fault = "none"
  /\ UNCHANGED <<stack, raced>>
  /\ h \in Slots /\ owned[h]
  /\ LET s == _rclpy_handle_capsule_destructor(
                [heap |-> heap, calls |-> calls, log |-> <<>>, fault |-> "none"], h) IN
     /\ heap' = s.heap
     /\ calls' = s.calls
     /\ fault' = s.fault
     /\ last' = Call("capsule_destructor", h, NULL, TRUE, NULL, s.log)
  /\ owned' = [owned EXCEPT ![h] = FALSE]
  /\ UNCHANGED <<added, given>>

NextCapsule ==
  \/ Next
  \/ \E ok_handle \in BOOLEAN, ok_capsule \in BOOLEAN :
       CreateHandleCapsule(ok_handle, ok_capsule)
  \/ \E h \in Slots : CapsuleDestructor(h)

SpecCapsule == Init /\ [][NextCapsule]_vars

LiveHandles == {h \in Slots : heap[h].st = "live"}

\* C20: a rclpy_create_handle_capsule call that returns NULL, because the handle
\* could not be created or because the capsule could not, leaves the same live
\* handles as before the call: no handle created by the call stays allocated.
C20_FailedCapsuleStep ==
  (last'.op = "create_handle_capsule" /\ last'.ret = NULL) =>
    LiveHandles' = LiveHandles
C20_FailedCapsuleKeepsGraph == [][C20_FailedCapsuleStep]_vars

\* ------------------------------------------------------------- release, step by step
\* _rclpy_handle_dec_ref as the machine runs it: a thread holds a stack of frames,
\* one per call in progress; a frame has the handle, the place reached (pc), the
\* value loaded from ref_count (reg) and the loop index (i, counted from 1).  No
\* lock or atomic protects ref_count (line 97): its decrement is a load, a store
\* and a test, and steps of other threads may come between them.
RaceHandles == 2     \* handles created in a behaviour with racing releases
RaceEdges == 1       \* dependencies added in a behaviour with racing releases

Frame(handle) == [handle |-> handle, pc |-> "enter", reg |-> 0, i |-> 0]
Busy(t) == stack[t] # <<>>
AllIdle == \A t \in Threads : ~Busy(t)
Top(t) == stack[t][Len(stack[t])]
SetTop(t, f) == [stack EXCEPT ![t] = [@ EXCEPT ![Len(@)] = f]]
Pop(t) == [stack EXCEPT ![t] = SubSeq(@, 1, Len(@) - 1)]
At(t, pc) == fault = "none" /\ Busy(t) /\ Top(t).pc = pc

\* A thread calls release with the reference of the creator of h.
StartRelease(t, h) ==
  /\ fault = "none"
  /\ ~Busy(t)
  /\ h \in Slots /\ owned[h]
  /\ owned' = [owned EXCEPT ![h] = FALSE]
  /\ stack' = [stack EXCEPT ![t] = <<Frame(h)>>]
  /\ raced' = (raced \/ \E u \in Threads \ {t} : Busy(u))
  /\ UNCHANGED <<heap, added, given, calls, fault, last>>

\* Lines 90-97: the NULL test, the assertion and the load of ref_count.
StepEnter(t) ==
  /\ At(t, "enter")
  /\ LET f == Top(t) IN
     IF f.handle = NULL
     THEN stack' = Pop(t) /\ UNCHANGED fault
     ELSE IF heap[f.handle].st # "live"
     THEN fault' = "ub" /\ UNCHANGED stack
     ELSE IF ~dec_ref_assertion(heap[f.handle])
     THEN fault' = "assert" /\ UNCHANGED stack
     ELSE /\ stack' = SetTop(t, [f EXCEPT !.pc = "store",
                                          !.reg = heap[f.handle].ref_count])
          /\ UNCHANGED fault
  /\ UNCHANGED <<heap, owned, added, given, calls, last, raced>>

\* Line 97: the store of the decremented count.
StepStore(t) ==
  /\ At(t, "store")
  /\ LET f == Top(t) IN
     IF heap[f.handle].st # "live"
     THEN fault' = "ub" /\ UNCHANGED <<heap, stack>>
     ELSE /\ heap' = [heap EXCEPT ![f.handle].ref_count = f.reg - 1]
          /\ stack' = SetTop(t, [f EXCEPT !.pc = "test"])
          /\ UNCHANGED fault
  /\ UNCHANGED <<owned, added, given, calls, last, raced>>

\* StepTest testing the value loaded instead of the decremented one
\* (handle->ref_count-- for --handle->ref_count).
StepTestOldValue(t, reload) ==
  /\ At(t, "test")
  /\ LET f == Top(t) IN
     IF f.reg # 0
     THEN stack' = Pop(t) /\ UNCHANGED fault
     ELSE stack' = SetTop(t, [f EXCEPT !.pc = "destructor"]) /\ UNCHANGED fault
  /\ UNCHANGED <<heap, owned, added, given, calls, last, raced>>

\* Line 97: the test of the decremented count.  The build may test the value it
\* stored or load ref_count again (reload); the two differ only under a race.
StepTest(t, reload) ==
  /\ At(t, "test")
  /\ LET f == Top(t) IN
     IF reload /\ heap[f.handle].st # "live"
     THEN fault' = "ub" /\ UNCHANGED stack
     ELSE LET value == IF reload THEN heap[f.handle].ref_count ELSE f.reg - 1 IN
          IF value # 0
          THEN stack' = Pop(t) /\ UNCHANGED fault
          ELSE stack' = SetTop(t, [f EXCEPT !.pc = "destructor"]) /\ UNCHANGED fault
  /\ UNCHANGED <<heap, owned, added, given, calls, last, raced>>

\* Lines 98-100: the destructor.
StepDestructor(t) ==
  /\ At(t, "destructor")
  /\ LET f == Top(t) IN
     IF heap[f.handle].st # "live"
     THEN fault' = "ub" /\ UNCHANGED <<calls, stack>>
     ELSE /\ calls' = IF heap[f.handle].destructor # NULL
                      THEN Append(calls, f.handle) ELSE calls
          /\ stack' = SetTop(t, [f EXCEPT !.pc = "loop", !.i = 1])
          /\ UNCHANGED fault
  /\ UNCHANGED <<heap, owned, added, given, last, raced>>

\* StepLoop without the i++ of line 101.
StepLoopNoAdvance(t) ==
  /\ At(t, "loop")
  /\ LET f == Top(t) IN
     IF heap[f.handle].st # "live"
     THEN fault' = "ub" /\ UNCHANGED stack
     ELSE IF f.i > heap[f.handle].num_of_dependencies
     THEN stack' = SetTop(t, [f EXCEPT !.pc = "deallocate"]) /\ UNCHANGED fault
     ELSE IF f.i > Len(heap[f.handle].dependencies)
     THEN fault' = "ub" /\ UNCHANGED stack
     ELSE /\ stack' = [stack EXCEPT
                         ![t] = Append(@, Frame(heap[f.handle].dependencies[f.i]))]
          /\ UNCHANGED fault
  /\ UNCHANGED <<heap, owned, added, given, calls, last, raced>>

\* Lines 101-103: one round of the loop, which calls _rclpy_handle_dec_ref on
\* the next element, or the end of the loop.
StepLoop(t) ==
  /\ At(t, "loop")
  /\ LET f == Top(t) IN
     IF heap[f.handle].st # "live"
     THEN fault' = "ub" /\ UNCHANGED stack
     ELSE IF f.i > heap[f.handle].num_of_dependencies
     THEN stack' = SetTop(t, [f EXCEPT !.pc = "deallocate"]) /\ UNCHANGED fault
     ELSE IF f.i > Len(heap[f.handle].dependencies)
     THEN fault' = "ub" /\ UNCHANGED stack
     ELSE /\ stack' = [SetTop(t, [f EXCEPT !.i = @ + 1]) EXCEPT
                         ![t] = Append(@, Frame(heap[f.handle].dependencies[f.i]))]
          /\ UNCHANGED fault
  /\ UNCHANGED <<heap, owned, added, given, calls, last, raced>>

\* Lines 104-106: the deallocation, and the return.
StepDeallocate(t) ==
  /\ At(t, "deallocate")
  /\ LET f == Top(t) IN
     IF heap[f.handle].st # "live"
     THEN fault' = "ub" /\ UNCHANGED <<heap, stack>>
     ELSE /\ heap' = [heap EXCEPT ![f.handle] = NoHandle("freed")]
          /\ stack' = Pop(t)
          /\ UNCHANGED fault
  /\ UNCHANGED <<owned, added, given, calls, last, raced>>

Steps ==
  \E t \in Threads :
    \/ StepEnter(t)
    \/ StepStore(t)
    \/ \E reload \in BOOLEAN : StepTest(t, reload)
    \/ StepDestructor(t)
    \/ StepLoop(t)
    \/ StepDeallocate(t)

\* Releases by two threads with no serialization: a thread may begin a release
\* and take its steps at any time.  Handles are created and linked while no
\* release is running.
RaceCreate ==
  /\ AllIdle
  /\ Cardinality(Slots \ Unused) < RaceHandles
  /\ Create(TRUE)
RaceAddDependency(a, b) ==
  /\ AllIdle
  /\ NumEdges < RaceEdges
  /\ AddDependency(a, b, TRUE)

NextRace ==
  \/ RaceCreate
  \/ \E a \in Slots, b \in Slots : RaceAddDependency(a, b)
  \/ \E t \in Threads, h \in Slots : StartRelease(t, h)
  \/ Steps

SpecRace == Init /\ [][NextRace]_vars

\* A handle that no creator and no live handle holds a reference to, and that is
\* still allocated.
Leaked(h) ==
  /\ heap[h].st = "live" /\ ~owned[h]
  /\ \A a \in Slots : heap[a].st = "live" => h \notin Range(heap[a].dependencies)
RaceLeak == AllIdle /\ fault = "none" /\ \E h \in Slots : Leaked(h)
RaceDouble == \E h \in Slots : Count(calls, h) >= 2

\* C12: with releases that are not serialized a bad state is reachable, and only
\* then: a handle that every owner has released and that is never destroyed (the
\* count was decremented once for two releases), a destructor invoked twice for
\* one handle, or a use of a deallocated handle, occur only in behaviours where a
\* release began while another release was running.
C12_BadOnlyWhenRaced ==
  (RaceLeak \/ RaceDouble \/ fault # "none") => raced

\* Two releases of one handle have both returned and the handle, which nobody
\* owns any more, is still allocated.
C12_Witness == RaceLeak /\ raced /\ calls # <<>>

\* Releases that are serialized on one thread: a release begins only when no
\* other call is running.  A call that has begun keeps running: the functions are
\* synchronous and never wait, so the steps of a release in progress are taken
\* (weak fairness).
SerialCreate == AllIdle /\ Create(TRUE)
SerialAddDependency(a, b) == AllIdle /\ AddDependency(a, b, TRUE)
SerialStart(h) == AllIdle /\ StartRelease(Min(Threads), h)

NextSerial ==
  \/ SerialCreate
  \/ \E a \in Slots, b \in Slots : SerialAddDependency(a, b)
  \/ \E h \in Slots : SerialStart(h)
  \/ Steps

SpecSerial == Init /\ [][NextSerial]_vars /\ WF_vars(Steps)

\* Handle h is in the zero branch of a release in progress.
Destroying(h) ==
  \E t \in Threads : \E k \in 1..Len(stack[t]) :
    stack[t][k].handle = h /\ stack[t][k].pc \in {"destructor", "loop", "deallocate"}

\* C17: every release terminates: a release in progress returns; when it has
\* returned, every handle whose destructor was invoked is deallocated and no
\* handle is left part-way through its zero branch; and no release stops on a
\* fault.
C17_Completed ==
  /\ fault = "none"
  /\ AllIdle => \A h \in Slots : (Destroyed(h) <=> heap[h].st = "freed")
  /\ \A h \in Slots : Destroying(h) => ~AllIdle
C17_ReleaseTerminates == []C17_Completed /\ (~AllIdle ~> AllIdle)

\* A release is three calls deep in a chain of dependencies and about to
\* deallocate the last handle.
C17_Witness ==
  \E t \in Threads :
    /\ Len(stack[t]) = 3
    /\ Top(t).pc = "deallocate"
====
